---- MODULE Spec2Model ----
(***************************************************************************)
(* A model of the LIST line parser of the ftp package (src/parse.go).      *)
(*                                                                         *)
(* A Go string is a sequence of one-character strings.  The helper         *)
(* operators take Go's 0-based positions, so that a slice line[a:b] of the *)
(* source reads Slice(line, a, b) here.                                    *)
(***************************************************************************)
EXTENDS Integers, Sequences, FiniteSets, TLC

VARIABLES
    line,    \* the line handed to the parser
    now,     \* the reference time
    pc,      \* "parseListLine" while the chain runs, "TestSettime" before a direct call of setTime, "return" after
    idx,     \* the index into listLineParsers of the next recognizer
    tried,   \* the recognizers run so far, in order
    result   \* what the call returned

vars == <<line, now, pc, idx, tried, result>>

---------------------------------------------------------------------------
(* Byte classes and the strings package.                                   *)

Digits == <<"0", "1", "2", "3", "4", "5", "6", "7", "8", "9">>

UpperLetters == <<"A", "B", "C", "D", "E", "F", "G", "H", "I", "J", "K", "L", "M",
                  "N", "O", "P", "Q", "R", "S", "T", "U", "V", "W", "X", "Y", "Z">>

LowerLetters == <<"a", "b", "c", "d", "e", "f", "g", "h", "i", "j", "k", "l", "m",
                  "n", "o", "p", "q", "r", "s", "t", "u", "v", "w", "x", "y", "z">>

PosIn(c, alphabet) ==
    IF \E i \in 1..Len(alphabet) : alphabet[i] = c
    THEN CHOOSE i \in 1..Len(alphabet) : alphabet[i] = c
    ELSE 0

IsDigitChar(c) == PosIn(c, Digits) > 0

lower(c) == IF PosIn(c, UpperLetters) > 0 THEN LowerLetters[PosIn(c, UpperLetters)] ELSE c

ToLower(s) == [i \in 1..Len(s) |-> lower(s[i])]

\* s[lo:hi] and s[lo:]
Slice(s, lo, hi) == SubSeq(s, lo + 1, hi)

From(s, lo) == SubSeq(s, lo + 1, Len(s))

MatchAt(s, sub, i) == i + Len(sub) <= Len(s) /\ SubSeq(s, i + 1, i + Len(sub)) = sub

Index(s, sub) ==
    IF \E i \in 0..Len(s) : MatchAt(s, sub, i)
    THEN CHOOSE i \in 0..Len(s) : MatchAt(s, sub, i) /\ \A j \in 0..(i - 1) : ~MatchAt(s, sub, j)
    ELSE -1

IndexByte(s, c) == Index(s, <<c>>)

Contains(s, sub) == Index(s, sub) >= 0

HasPrefix(s, prefix) == MatchAt(s, prefix, 0)

HasSuffix(s, suffix) == Len(s) >= Len(suffix) /\ MatchAt(s, suffix, Len(s) - Len(suffix))

TrimPrefix(s, prefix) == IF HasPrefix(s, prefix) THEN From(s, Len(prefix)) ELSE s

RECURSIVE TrimLeft(_, _)
TrimLeft(s, c) == IF Len(s) > 0 /\ s[1] = c THEN TrimLeft(Tail(s), c) ELSE s

RECURSIVE Split(_, _)
Split(s, sep) ==
    LET i == Index(s, sep)
    IN  IF i < 0 THEN <<s>> ELSE <<Slice(s, 0, i)>> \o Split(From(s, i + Len(sep)), sep)

RECURSIVE Join(_, _)
Join(parts, sep) ==
    IF Len(parts) = 0 THEN <<>>
    ELSE IF Len(parts) = 1 THEN parts[1]
    ELSE parts[1] \o sep \o Join(Tail(parts), sep)

---------------------------------------------------------------------------
(* strconv.  A result is [ok |-> BOOLEAN, n |-> value].  The size tokens of *)
(* the model are short, so the range error of a value above 2^64-1 is not  *)
(* reached and is left out.                                                *)

\* the digit value of a byte as ParseUint reads it; 36 for a byte that is no digit
DigitValue(c) ==
    IF IsDigitChar(c) THEN PosIn(c, Digits) - 1
    ELSE IF PosIn(lower(c), LowerLetters) > 0 THEN PosIn(lower(c), LowerLetters) + 9
    ELSE 36

RECURSIVE underscoreScan(_, _, _)
\* the loop of strconv.underscoreOK; saw is "^", "0", "_" or "!"
underscoreScan(s, hex, saw) ==
    IF Len(s) = 0 THEN saw # "_"
    ELSE IF IsDigitChar(s[1]) \/ (hex /\ DigitValue(s[1]) >= 10 /\ DigitValue(s[1]) <= 15)
         THEN underscoreScan(Tail(s), hex, "0")
    ELSE IF s[1] = "_"
         THEN IF saw # "0" THEN FALSE ELSE underscoreScan(Tail(s), hex, "_")
    ELSE IF saw = "_" THEN FALSE
    ELSE underscoreScan(Tail(s), hex, "!")

underscoreOK(s0) ==
    LET s1 == IF Len(s0) >= 1 /\ s0[1] \in {"-", "+"} THEN Tail(s0) ELSE s0
        pre == Len(s1) >= 2 /\ s1[1] = "0" /\ lower(s1[2]) \in {"b", "o", "x"}
    IN  IF pre THEN underscoreScan(From(s1, 2), lower(s1[2]) = "x", "0")
        ELSE underscoreScan(s1, FALSE, "^")

RECURSIVE uintDigits(_, _, _, _)
\* the digit loop of ParseUint: [ok, n, underscores]
uintDigits(s, base, base0, acc) ==
    IF Len(s) = 0 THEN [ok |-> TRUE, n |-> acc, underscores |-> FALSE]
    ELSE IF s[1] = "_" /\ base0
         THEN [uintDigits(Tail(s), base, base0, acc) EXCEPT !.underscores = TRUE]
    ELSE IF DigitValue(s[1]) >= base THEN [ok |-> FALSE, n |-> 0, underscores |-> FALSE]
    ELSE uintDigits(Tail(s), base, base0, acc * base + DigitValue(s[1]))

\* the base of the literal and its digits: base 0 reads the prefix 0b, 0o, 0x or 0
uintBase(s0, base) ==
    IF base # 0 THEN <<base, s0>>
    ELSE IF s0[1] # "0" THEN <<10, s0>>
    ELSE IF Len(s0) >= 3 /\ lower(s0[2]) = "b" THEN <<2, From(s0, 2)>>
    ELSE IF Len(s0) >= 3 /\ lower(s0[2]) = "o" THEN <<8, From(s0, 2)>>
    ELSE IF Len(s0) >= 3 /\ lower(s0[2]) = "x" THEN <<16, From(s0, 2)>>
    ELSE <<8, From(s0, 1)>>

uintChecked(s0, r) ==
    IF ~r.ok THEN [ok |-> FALSE, n |-> 0]
    ELSE IF r.underscores /\ ~underscoreOK(s0) THEN [ok |-> FALSE, n |-> 0]
    ELSE [ok |-> TRUE, n |-> r.n]

uintPicked(s0, pick, base0) == uintChecked(s0, uintDigits(pick[2], pick[1], base0, 0))

\* strconv.ParseUint(s0, base, 64)
ParseUint(s0, base) ==
    IF Len(s0) = 0 THEN [ok |-> FALSE, n |-> 0]
    ELSE uintPicked(s0, uintBase(s0, base), base = 0)

AllDigits(s) == \A i \in 1..Len(s) : IsDigitChar(s[i])

RECURSIVE DecimalValue(_, _)
DecimalValue(s, acc) ==
    IF Len(s) = 0 THEN acc ELSE DecimalValue(Tail(s), acc * 10 + DigitValue(s[1]))

signedValue(neg, ok, n) == [ok |-> ok, n |-> IF ~ok THEN 0 ELSE IF neg THEN 0 - n ELSE n]

\* strconv.Atoi: an optional sign and at least one decimal digit
Atoi(s0) ==
    IF Len(s0) >= 1 /\ s0[1] \in {"-", "+"}
    THEN signedValue(s0[1] = "-", Len(s0) > 1 /\ AllDigits(Tail(s0)), DecimalValue(Tail(s0), 0))
    ELSE signedValue(FALSE, Len(s0) > 0 /\ AllDigits(s0), DecimalValue(s0, 0))

---------------------------------------------------------------------------
(* The time package.  A time.Time is [year, month, day, hour, min, sec] in *)
(* the caller's location; every time of one run is in that one location,   *)
(* which has no clock changes, so instants compare as wall clocks do.      *)

ZeroTime == [year |-> 1, month |-> 1, day |-> 1, hour |-> 0, min |-> 0, sec |-> 0]

isLeap(year) == year % 4 = 0 /\ (year % 100 # 0 \/ year % 400 = 0)

daysIn(month, year) ==
    IF month = 2 THEN (IF isLeap(year) THEN 29 ELSE 28)
    ELSE IF month \in {4, 6, 9, 11} THEN 30 ELSE 31

RECURSIVE rollDay(_, _, _)
\* a day number outside its month carried into the months before or after
rollDay(year, month, day) ==
    IF day < 1
    THEN rollDay(IF month = 1 THEN year - 1 ELSE year,
                 IF month = 1 THEN 12 ELSE month - 1,
                 day + daysIn(IF month = 1 THEN 12 ELSE month - 1,
                              IF month = 1 THEN year - 1 ELSE year))
    ELSE IF day > daysIn(month, year)
    THEN rollDay(IF month = 12 THEN year + 1 ELSE year,
                 IF month = 12 THEN 1 ELSE month + 1,
                 day - daysIn(month, year))
    ELSE <<year, month, day>>

dateOf(ymd, hour, min, sec) ==
    [year |-> ymd[1], month |-> ymd[2], day |-> ymd[3], hour |-> hour, min |-> min, sec |-> sec]

\* time.Date: out-of-range fields are normalised
Date(year, month, day, hour, min, sec) ==
    dateOf(rollDay(year + ((month - 1) \div 12),
                   ((month - 1) % 12) + 1,
                   day + ((hour + ((min + (sec \div 60)) \div 60)) \div 24)),
           (hour + ((min + (sec \div 60)) \div 60)) % 24,
           (min + (sec \div 60)) % 60,
           sec % 60)

AddDate(t, years, months, days) ==
    Date(t.year + years, t.month + months, t.day + days, t.hour, t.min, t.sec)

RECURSIVE lexLess(_, _)
lexLess(a, b) ==
    IF Len(a) = 0 THEN FALSE
    ELSE IF a[1] < b[1] THEN TRUE
    ELSE IF a[1] > b[1] THEN FALSE
    ELSE lexLess(Tail(a), Tail(b))

Before(t, u) ==
    lexLess(<<t.year, t.month, t.day, t.hour, t.min, t.sec>>,
            <<u.year, u.month, u.day, u.hour, u.min, u.sec>>)

shortMonthNames == <<<<"J", "a", "n">>, <<"F", "e", "b">>, <<"M", "a", "r">>, <<"A", "p", "r">>, <<"M", "a", "y">>, <<"J", "u", "n">>, <<"J", "u", "l">>, <<"A", "u", "g">>, <<"S", "e", "p">>, <<"O", "c", "t">>, <<"N", "o", "v">>, <<"D", "e", "c">>>>

std0x == <<"stdZeroMonth", "stdZeroDay", "stdZeroHour12", "stdZeroMinute", "stdZeroSecond", "stdYear">>

chunk(layout, i, std, n) ==
    [prefix |-> Slice(layout, 0, i), std |-> std, suffix |-> From(layout, i + n)]

\* the element of the layout that starts at position i: <<std, its length>>, or <<"", 0>>
stdAt(layout, i, c) ==
    IF c = "J" /\ MatchAt(layout, <<"J", "a", "n">>, i) THEN <<"stdMonth", 3>>
    ELSE IF c = "0" /\ Len(layout) >= i + 2 /\ layout[i + 2] \in {"1", "2", "3", "4", "5", "6"}
         THEN <<std0x[PosIn(layout[i + 2], Digits) - 1], 2>>
    ELSE IF c = "1" /\ Len(layout) >= i + 2 /\ layout[i + 2] = "5" THEN <<"stdHour", 2>>
    ELSE IF c = "1" THEN <<"stdNumMonth", 1>>
    ELSE IF c = "2" /\ MatchAt(layout, <<"2", "0", "0", "6">>, i) THEN <<"stdLongYear", 4>>
    ELSE IF c = "2" THEN <<"stdDay", 1>>
    ELSE IF c = "_" /\ Len(layout) >= i + 2 /\ layout[i + 2] = "2" /\ ~MatchAt(layout, <<"2", "0", "0", "6">>, i + 1)
         THEN <<"stdUnderDay", 2>>
    ELSE IF c = "3" THEN <<"stdHour12", 1>>
    ELSE IF c = "4" THEN <<"stdMinute", 1>>
    ELSE IF c = "5" THEN <<"stdSecond", 1>>
    ELSE IF c = "P" /\ Len(layout) >= i + 2 /\ layout[i + 2] = "M" THEN <<"stdPM", 2>>
    ELSE <<"", 0>>

RECURSIVE nextStdChunkFrom(_, _)
nextStdChunkAt(layout, i, found) ==
    IF found[1] = "" THEN nextStdChunkFrom(layout, i + 1)
    ELSE chunk(layout, i, found[1], found[2])

nextStdChunkFrom(layout, i) ==
    IF i >= Len(layout) THEN [prefix |-> layout, std |-> "", suffix |-> <<>>]
    ELSE nextStdChunkAt(layout, i, stdAt(layout, i, layout[i + 1]))

\* time.nextStdChunk for the layout elements the layouts of this package use:
\* [prefix, std, suffix], std = "" when the layout holds no further element
nextStdChunk(layout) == nextStdChunkFrom(layout, 0)

cutspace(s) == TrimLeft(s, " ")

RECURSIVE skip(_, _)
\* time.skip: a space of the layout stands for any run of spaces of the value
skip(value, prefix) ==
    IF Len(prefix) = 0 THEN [ok |-> TRUE, value |-> value]
    ELSE IF prefix[1] = " "
         THEN IF Len(value) > 0 /\ value[1] # " " THEN [ok |-> FALSE, value |-> value]
              ELSE skip(cutspace(value), cutspace(prefix))
    ELSE IF Len(value) = 0 \/ value[1] # prefix[1] THEN [ok |-> FALSE, value |-> value]
    ELSE skip(Tail(value), Tail(prefix))

isDigit(s, i) == Len(s) > i /\ IsDigitChar(s[i + 1])

getnum(s, fixed) ==
    IF ~isDigit(s, 0) THEN [ok |-> FALSE, n |-> 0, rest |-> s]
    ELSE IF ~isDigit(s, 1)
         THEN IF fixed THEN [ok |-> FALSE, n |-> 0, rest |-> s]
              ELSE [ok |-> TRUE, n |-> DigitValue(s[1]), rest |-> From(s, 1)]
    ELSE [ok |-> TRUE, n |-> DigitValue(s[1]) * 10 + DigitValue(s[2]), rest |-> From(s, 2)]

\* atoi of the time package: an optional sign, then digits only
timeAtoi(s0) ==
    IF Len(s0) > 0 /\ s0[1] \in {"-", "+"}
    THEN signedValue(s0[1] = "-", AllDigits(Tail(s0)), DecimalValue(Tail(s0), 0))
    ELSE signedValue(FALSE, AllDigits(s0), DecimalValue(s0, 0))

monthNamed(prefix) == {m \in 1..12 : ToLower(shortMonthNames[m]) = prefix}

lookupFound(value, ms) ==
    IF ms = {} THEN [ok |-> FALSE, n |-> 0, rest |-> value]
    ELSE [ok |-> TRUE, n |-> CHOOSE m \in ms : TRUE, rest |-> From(value, 3)]

\* time.lookup(shortMonthNames, value): the first three bytes, whatever their case
lookupMonth(value) ==
    IF Len(value) < 3 THEN [ok |-> FALSE, n |-> 0, rest |-> value]
    ELSE lookupFound(value, monthNamed(ToLower(Slice(value, 0, 3))))

\* the numeric elements: the field they set, whether two digits are required, the range
stdFixed == {"stdZeroMonth", "stdZeroDay", "stdZeroHour12", "stdZeroMinute", "stdZeroSecond"}

stdInRange(std, n) ==
    CASE std \in {"stdNumMonth", "stdZeroMonth"}  -> ~(n <= 0 \/ 12 < n)
      [] std \in {"stdDay", "stdUnderDay", "stdZeroDay"} -> TRUE
      [] std = "stdHour"                           -> ~(n < 0 \/ 24 <= n)
      [] std \in {"stdHour12", "stdZeroHour12"}    -> ~(n < 0 \/ 12 < n)
      [] std \in {"stdMinute", "stdZeroMinute"}    -> ~(n < 0 \/ 60 <= n)
      [] std \in {"stdSecond", "stdZeroSecond"}    -> ~(n < 0 \/ 60 <= n)

stdSet(std, st, n, rest) ==
    CASE std \in {"stdNumMonth", "stdZeroMonth", "stdMonth"} -> [st EXCEPT !.value = rest, !.month = n]
      [] std \in {"stdDay", "stdUnderDay", "stdZeroDay"}      -> [st EXCEPT !.value = rest, !.day = n]
      [] std \in {"stdHour", "stdHour12", "stdZeroHour12"}    -> [st EXCEPT !.value = rest, !.hour = n]
      [] std \in {"stdMinute", "stdZeroMinute"}               -> [st EXCEPT !.value = rest, !.min = n]
      [] std \in {"stdSecond", "stdZeroSecond"}               -> [st EXCEPT !.value = rest, !.sec = n]
      [] std \in {"stdYear", "stdLongYear"}                   -> [st EXCEPT !.value = rest, !.year = n]

stdNumber(std, st, r) ==
    IF ~r.ok \/ ~stdInRange(std, r.n) THEN [st EXCEPT !.ok = FALSE] ELSE stdSet(std, st, r.n, r.rest)

stdYearOf(std, st, a, rest) ==
    IF ~a.ok THEN [st EXCEPT !.ok = FALSE]
    ELSE IF std = "stdLongYear" THEN stdSet(std, st, a.n, rest)
    ELSE stdSet(std, st, IF a.n >= 69 THEN a.n + 1900 ELSE a.n + 2000, rest)

stdMonthOf(std, st, r) ==
    IF ~r.ok THEN [st EXCEPT !.ok = FALSE] ELSE stdSet(std, st, r.n, r.rest)

\* one element of the layout read from the value, as in the switch of time.parse;
\* st is [ok, value, year, month, day, hour, min, sec, pmSet, amSet]
parseStd(std, st) ==
    CASE std = "stdYear" ->
           IF Len(st.value) < 2 THEN [st EXCEPT !.ok = FALSE]
           ELSE stdYearOf(std, st, timeAtoi(Slice(st.value, 0, 2)), From(st.value, 2))
      [] std = "stdLongYear" ->
           IF Len(st.value) < 4 \/ ~isDigit(st.value, 0) THEN [st EXCEPT !.ok = FALSE]
           ELSE stdYearOf(std, st, timeAtoi(Slice(st.value, 0, 4)), From(st.value, 4))
      [] std = "stdMonth" -> stdMonthOf(std, st, lookupMonth(st.value))
      [] std = "stdUnderDay" ->
           stdNumber(std, st, getnum(IF Len(st.value) > 0 /\ st.value[1] = " "
                                     THEN Tail(st.value) ELSE st.value, FALSE))
      [] std = "stdPM" ->
           IF Len(st.value) < 2 THEN [st EXCEPT !.ok = FALSE]
           ELSE IF Slice(st.value, 0, 2) = <<"P", "M">> THEN [st EXCEPT !.value = From(st.value, 2), !.pmSet = TRUE]
           ELSE IF Slice(st.value, 0, 2) = <<"A", "M">> THEN [st EXCEPT !.value = From(st.value, 2), !.amSet = TRUE]
           ELSE [st EXCEPT !.ok = FALSE]
      [] OTHER -> stdNumber(std, st, getnum(st.value, std \in stdFixed))

RECURSIVE parseChunks(_, _)
parseNext(c, st2) == IF ~st2.ok THEN st2 ELSE parseChunks(c.suffix, st2)

parseSkipped(c, st, sk) ==
    IF ~sk.ok THEN [st EXCEPT !.ok = FALSE]
    ELSE IF c.std = "" THEN [st EXCEPT !.value = sk.value, !.ok = (Len(sk.value) = 0)]
    ELSE parseNext(c, parseStd(c.std, [st EXCEPT !.value = sk.value]))

parseChunk(c, st) == parseSkipped(c, st, skip(st.value, c.prefix))

\* the loop of time.parse over the elements of the layout
parseChunks(layout, st) == parseChunk(nextStdChunk(layout), st)

parsed(st) ==
    IF ~st.ok THEN [ok |-> FALSE, t |-> ZeroTime]
    ELSE IF st.day < 1 \/ st.day > daysIn(st.month, st.year) THEN [ok |-> FALSE, t |-> ZeroTime]
    ELSE [ok |-> TRUE,
          t |-> Date(st.year, st.month, st.day,
                     IF st.pmSet /\ st.hour < 12 THEN st.hour + 12
                     ELSE IF st.amSet /\ st.hour = 12 THEN 0 ELSE st.hour,
                     st.min, st.sec)]

\* time.ParseInLocation: [ok, t]; the time is the zero Time on error.  A
\* fractional second after the seconds field is accepted by the package; no
\* value of the model holds '.' or ',' there.
ParseInLocation(layout, value) ==
    parsed(parseChunks(layout,
                       [ok |-> TRUE, value |-> value, year |-> 0, month |-> 1, day |-> 1,
                        hour |-> 0, min |-> 0, sec |-> 0, pmSet |-> FALSE, amSet |-> FALSE]))

---------------------------------------------------------------------------
(* String constants of the source.                                         *)

errUnsupportedListLine == "unsupported LIST line"

errUnsupportedListDate == "unsupported LIST date"

errUnknownListEntryType == "unknown entry type"

\* an error of time.ParseInLocation and one of strconv; neither is one of the three above
timeParseError == "time.ParseError"

strconvNumError == "strconv.NumError"

sp == <<" ">>

strModify == <<"m", "o", "d", "i", "f", "y">>

strType == <<"t", "y", "p", "e">>

strSize == <<"s", "i", "z", "e">>

strDir == <<"d", "i", "r">>

strCdir == <<"c", "d", "i", "r">>

strPdir == <<"p", "d", "i", "r">>

strFile == <<"f", "i", "l", "e">>

strFolder == <<"f", "o", "l", "d", "e", "r">>

strArrow == <<" ", "-", ">", " ">>

strDirMarker == <<"<", "D", "I", "R", ">">>

strIbmDir == <<"*", "D", "I", "R">>

strMidnight == <<"0", "0", ":", "0", "0">>

layoutRFC3659 == <<"2", "0", "0", "6", "0", "1", "0", "2", "1", "5", "0", "4", "0", "5">>

layoutLs == <<"_", "2", " ", "J", "a", "n", " ", "2", "0", "0", "6", " ", "1", "5", ":", "0", "4">>

dirTimeFormats ==
    << <<"0", "1", "-", "0", "2", "-", "0", "6", " ", " ", "0", "3", ":", "0", "4", "P", "M">>,
       <<"2", "0", "0", "6", "-", "0", "1", "-", "0", "2", " ", " ", "1", "5", ":", "0", "4">>,
       <<"0", "1", "-", "0", "2", "-", "2", "0", "0", "6", " ", " ", "0", "3", ":", "0", "4", "P", "M">>,
       <<"0", "1", "-", "0", "2", "-", "2", "0", "0", "6", " ", " ", "1", "5", ":", "0", "4">> >>

---------------------------------------------------------------------------
(* The scanner and the Entry record.  Their source file is not part of the *)
(* files at hand: the scanner is modelled from its description and from    *)
(* the listTests of the package, which fix that Next takes one separator   *)
(* after a token (the name " foo bar " keeps its leading space).           *)

EntryTypeFile == "EntryTypeFile"

EntryTypeFolder == "EntryTypeFolder"

EntryTypeLink == "EntryTypeLink"

\* &Entry{}
NewEntry == [Name |-> <<>>, Target |-> <<>>, Size |-> 0, Type |-> EntryTypeFile, Time |-> ZeroTime]

RECURSIVE skipSpaces(_, _)
skipSpaces(s, pos) == IF pos < Len(s) /\ s[pos + 1] = " " THEN skipSpaces(s, pos + 1) ELSE pos

RECURSIVE tokenEnd(_, _)
tokenEnd(s, pos) == IF pos < Len(s) /\ s[pos + 1] # " " THEN tokenEnd(s, pos + 1) ELSE pos

scannerToken(s, start, end) ==
    [tok |-> Slice(s, start, end), pos |-> IF end < Len(s) THEN end + 1 ELSE end]

scannerFrom(s, start) == scannerToken(s, start, tokenEnd(s, start))

\* scanner.Next: [tok, pos], pos being the cursor after the call
scannerNext(s, pos) == scannerFrom(s, skipSpaces(s, pos))

RECURSIVE scannerNextFields(_, _, _)
scannerMore(s, r, rest) == [fields |-> <<r.tok>> \o rest.fields, pos |-> rest.pos]

scannerField(s, r, count) ==
    IF r.tok = <<>> THEN [fields |-> <<>>, pos |-> r.pos]
    ELSE scannerMore(s, r, scannerNextFields(s, r.pos, count - 1))

\* scanner.NextFields: [fields, pos]
scannerNextFields(s, pos, count) ==
    IF count = 0 THEN [fields |-> <<>>, pos |-> pos]
    ELSE scannerField(s, scannerNext(s, pos), count)

scannerRemaining(s, pos) == From(s, pos)

---------------------------------------------------------------------------
(* The recognizers.  A recognizer returns                                  *)
(*   [err, e, rec, setTimeFields, setSizeStr]:                             *)
(* err is "nil" or the error, e is <<entry>> or <<>> for a nil pointer,    *)
(* rec is the record the recognizer worked on as the call leaves it, and   *)
(* setTimeFields and setSizeStr hold the argument of the call of setTime   *)
(* and of setSize or ParseUint, <<>> when the call was not made.           *)

Returned(err, e, rec, tf, ss) ==
    [err |-> err, e |-> e, rec |-> rec, setTimeFields |-> tf, setSizeStr |-> ss]

Unsupported(rec) == Returned(errUnsupportedListLine, <<>>, rec, <<>>, <<>>)

sizeSet(e, r) == [err |-> IF r.ok THEN "nil" ELSE strconvNumError, e |-> [e EXCEPT !.Size = r.n]]

\* Entry.setSize: [err, e]
setSize(e, str) == sizeSet(e, ParseUint(str, 0))

RECURSIVE Itoa(_)
\* %d of a number >= 0
Itoa(n) == IF n < 10 THEN <<Digits[n + 1]>> ELSE Itoa(n \div 10) \o <<Digits[(n % 10) + 1]>>

\* timeRecent with the comparison turned round: a time after now + 6 months is a year earlier
timeRecentAfter(e, p, t0) ==
    [err |-> IF p.ok THEN "nil" ELSE timeParseError,
     e |-> [e EXCEPT !.Time = IF Before(AddDate(t0, 0, 6, 0), p.t) THEN AddDate(p.t, -1, 0, 0) ELSE p.t]]

\* the recency correction of setTime: a time not before now + 6 months is a year earlier
timeRecent(e, p, t0) ==
    [err |-> IF p.ok THEN "nil" ELSE timeParseError,
     e |-> [e EXCEPT !.Time = IF ~Before(p.t, AddDate(t0, 0, 6, 0)) THEN AddDate(p.t, -1, 0, 0) ELSE p.t]]

timeDated(e, p) == [err |-> IF p.ok THEN "nil" ELSE timeParseError, e |-> [e EXCEPT !.Time = p.t]]

\* setTime without the check of the length of a year: whatever holds no ':' is parsed as one
setTimeAnyYear(e, fields, t0) ==
    IF Contains(fields[3], <<":">>)
    THEN timeRecent(e,
                    ParseInLocation(layoutLs,
                                    fields[2] \o sp \o fields[1] \o sp \o Itoa(t0.year) \o sp \o fields[3]),
                    t0)
    ELSE timeDated(e, ParseInLocation(layoutLs,
                                      fields[2] \o sp \o fields[1] \o sp \o fields[3] \o sp \o strMidnight))

\* Entry.setTime: [err, e]
setTime(e, fields, t0) ==
    IF Contains(fields[3], <<":">>)
    THEN timeRecent(e,
                    ParseInLocation(layoutLs,
                                    fields[2] \o sp \o fields[1] \o sp \o Itoa(t0.year) \o sp \o fields[3]),
                    t0)
    ELSE IF Len(fields[3]) # 4 THEN [err |-> errUnsupportedListDate, e |-> e]
    ELSE timeDated(e, ParseInLocation(layoutLs,
                                      fields[2] \o sp \o fields[1] \o sp \o fields[3] \o sp \o strMidnight))

factKey(field) == ToLower(Slice(field, 0, Index(field, <<"=">>)))

factValue(field) == From(field, Index(field, <<"=">>) + 1)

\* rfcFact with only the type value dir taken for a folder
rfcFactDirOnly(i, key, value, e) ==
    IF i < 1 THEN [err |-> errUnsupportedListLine, e |-> e]
    ELSE IF key = strModify THEN timeDated(e, ParseInLocation(layoutRFC3659, value))
    ELSE IF key = strType
         THEN IF value = strDir
              THEN [err |-> "nil", e |-> [e EXCEPT !.Type = EntryTypeFolder]]
              ELSE IF value = strFile THEN [err |-> "nil", e |-> [e EXCEPT !.Type = EntryTypeFile]]
              ELSE [err |-> "nil", e |-> e]
    ELSE IF key = strSize THEN setSize(e, value)
    ELSE [err |-> "nil", e |-> e]

\* one fact of a fact list applied to the record: [err, e]
rfcFact(i, key, value, e) ==
    IF i < 1 THEN [err |-> errUnsupportedListLine, e |-> e]
    ELSE IF key = strModify THEN timeDated(e, ParseInLocation(layoutRFC3659, value))
    ELSE IF key = strType
         THEN IF value \in {strDir, strCdir, strPdir}
              THEN [err |-> "nil", e |-> [e EXCEPT !.Type = EntryTypeFolder]]
              ELSE IF value = strFile THEN [err |-> "nil", e |-> [e EXCEPT !.Type = EntryTypeFile]]
              ELSE [err |-> "nil", e |-> e]
    ELSE IF key = strSize THEN setSize(e, value)
    ELSE [err |-> "nil", e |-> e]

RECURSIVE rfcFacts(_, _)
rfcFactsNext(fields, r) == IF r.err # "nil" THEN r ELSE rfcFacts(Tail(fields), r.e)

\* the loop over the facts; it stops at the first error
rfcFacts(fields, e) ==
    IF Len(fields) = 0 THEN [err |-> "nil", e |-> e]
    ELSE rfcFactsNext(fields,
                      rfcFact(Index(fields[1], <<"=">>), factKey(fields[1]), factValue(fields[1]), e))

rfcLastSize(sizes) == IF Len(sizes) = 0 THEN <<>> ELSE <<factValue(sizes[Len(sizes)])>>

\* the value of the last size fact, the argument of the last call of setSize
rfcSizeStr(fields) ==
    rfcLastSize(SelectSeq(fields, LAMBDA f : Index(f, <<"=">>) >= 1 /\ factKey(f) = strSize))

rfcReturn(r, ss) ==
    IF r.err # "nil" THEN Returned(r.err, <<>>, r.e, <<>>, <<>>)
    ELSE Returned("nil", <<r.e>>, r.e, <<>>, ss)

rfcNamed(fields, e) == rfcReturn(rfcFacts(fields, e), rfcSizeStr(fields))

\* rfcLine without the comparison of the names: the facts of every line are applied
rfcLineAnyName(ln, iSemicolon, iWhitespace, e) ==
    IF iSemicolon < 0 \/ iSemicolon > iWhitespace THEN Unsupported(e)
    ELSE rfcNamed(Split(Slice(ln, 0, iWhitespace - 1), <<";">>),
                  IF e.Name = <<>> THEN [e EXCEPT !.Name = From(ln, iWhitespace + 1)] ELSE e)

rfcLine(ln, iSemicolon, iWhitespace, e) ==
    IF iSemicolon < 0 \/ iSemicolon > iWhitespace THEN Unsupported(e)
    ELSE IF e.Name # <<>> /\ e.Name # From(ln, iWhitespace + 1) THEN Unsupported(e)
    ELSE rfcNamed(Split(Slice(ln, 0, iWhitespace - 1), <<";">>),
                  IF e.Name = <<>> THEN [e EXCEPT !.Name = From(ln, iWhitespace + 1)] ELSE e)

parseNextRFC3659ListLine(ln, e) == rfcLine(ln, Index(ln, <<";">>), Index(ln, sp), e)

parseRFC3659ListLine(ln, t0) == parseNextRFC3659ListLine(ln, NewEntry)

lsReturn(r, fields, ss) ==
    IF r.err # "nil" THEN Returned(r.err, <<>>, r.e, <<fields>>, ss)
    ELSE Returned("nil", <<r.e>>, r.e, <<fields>>, ss)

\* the end of the three branches of parseLsListLine: setTime, then return e
lsSetTime(e, fields, t0, ss) == lsReturn(setTime(e, fields, t0), fields, ss)

\* the branch of a file with link count 0: fields has seven fields
lsZeroSized(sz, fields, t0) ==
    IF sz.err # "nil" THEN Returned(errUnsupportedListLine, <<>>, sz.e, <<>>, <<fields[3]>>)
    ELSE lsSetTime(sz.e, SubSeq(fields, 5, 7), t0, <<fields[3]>>)

lsZero(ln, fields, n, t0) ==
    lsZeroSized(setSize([NewEntry EXCEPT !.Type = EntryTypeFile, !.Name = scannerRemaining(ln, n.pos)],
                        fields[3]),
                Append(fields, n.tok), t0)

lsFileSized(sz, fields, t0) ==
    IF sz.err # "nil" THEN Returned(sz.err, <<>>, sz.e, <<>>, <<fields[5]>>)
    ELSE lsSetTime(sz.e, SubSeq(fields, 6, 8), t0, <<fields[5]>>)

\* Split link name and target
lsLink(e, i) ==
    IF i > 0
    THEN [e EXCEPT !.Type = EntryTypeLink, !.Target = From(e.Name, i + 4), !.Name = Slice(e.Name, 0, i)]
    ELSE [e EXCEPT !.Type = EntryTypeLink]

\* lsTyped with every other first byte taken for a file without a size
lsTypedOtherIsFile(c, e, fields, t0) ==
    IF c = "-" THEN lsFileSized(setSize([e EXCEPT !.Type = EntryTypeFile], fields[5]), fields, t0)
    ELSE lsSetTime(IF c = "d" THEN [e EXCEPT !.Type = EntryTypeFolder]
                   ELSE IF c = "l" THEN lsLink(e, Index(e.Name, strArrow))
                   ELSE [e EXCEPT !.Type = EntryTypeFile],
                   SubSeq(fields, 6, 8), t0, <<>>)

\* the switch on the first byte of the mode field: fields has eight fields
lsTyped(c, e, fields, t0) ==
    IF c = "-" THEN lsFileSized(setSize([e EXCEPT !.Type = EntryTypeFile], fields[5]), fields, t0)
    ELSE IF c \in {"d", "l"}
         THEN lsSetTime(IF c = "d" THEN [e EXCEPT !.Type = EntryTypeFolder]
                        ELSE lsLink(e, Index(e.Name, strArrow)),
                        SubSeq(fields, 6, 8), t0, <<>>)
    ELSE Returned(errUnknownListEntryType, <<>>, e, <<>>, <<>>)

lsGeneric(ln, fields, pos, t0) ==
    IF Len(fields) < 8 THEN Unsupported(NewEntry)
    ELSE lsTyped(fields[1][1], [NewEntry EXCEPT !.Name = scannerRemaining(ln, pos)], fields, t0)

lsMore(ln, fields, s2, t0) == lsGeneric(ln, fields \o s2.fields, s2.pos, t0)

lsFields(ln, fields, pos, t0) ==
    IF Len(fields) < 6 THEN Unsupported(NewEntry)
    ELSE IF fields[2] = strFolder /\ fields[3] = <<"0">>
         THEN lsSetTime([NewEntry EXCEPT !.Type = EntryTypeFolder, !.Name = scannerRemaining(ln, pos)],
                        SubSeq(fields, 4, 6), t0, <<>>)
    ELSE IF fields[2] = <<"0">> THEN lsZero(ln, fields, scannerNext(ln, pos), t0)
    ELSE lsMore(ln, fields, scannerNextFields(ln, pos, 2), t0)

lsScanned(ln, s6, t0) == lsFields(ln, s6.fields, s6.pos, t0)

lsModeField(ln, i, t0) ==
    IF ~(i = 10 \/ (i = 11 /\ ln[11] = "+")) THEN Unsupported(NewEntry)
    ELSE lsScanned(ln, scannerNextFields(ln, 0, 6), t0)

parseLsListLine(ln, t0) == lsModeField(ln, IndexByte(ln, " "), t0)

RECURSIVE dirTryFormats(_, _)
dirTried(formats, st, p) ==
    IF p.ok THEN [Time |-> p.t, err |-> FALSE, line |-> From(st.line, Len(formats[1]))]
    ELSE dirTryFormats(Tail(formats), [st EXCEPT !.Time = p.t, !.err = TRUE])

\* the loop over dirTimeFormats; st is [Time, err, line], err being err != nil
dirTryFormats(formats, st) ==
    IF Len(formats) = 0 THEN st
    ELSE IF Len(st.line) > Len(formats[1])
         THEN dirTried(formats, st, ParseInLocation(formats[1], Slice(st.line, 0, Len(formats[1]))))
    ELSE dirTryFormats(Tail(formats), st)

dirSized(e, l1, space, sz) ==
    IF ~sz.ok
    THEN Returned(errUnsupportedListLine, <<>>, [e EXCEPT !.Size = sz.n], <<>>, <<Slice(l1, 0, space)>>)
    ELSE Returned("nil",
                  <<[e EXCEPT !.Size = sz.n, !.Type = EntryTypeFile, !.Name = TrimLeft(From(l1, space), " ")]>>,
                  [e EXCEPT !.Size = sz.n, !.Type = EntryTypeFile, !.Name = TrimLeft(From(l1, space), " ")],
                  <<>>, <<Slice(l1, 0, space)>>)

dirFile(e, l1, space) ==
    IF space = -1 THEN Unsupported(e) ELSE dirSized(e, l1, space, ParseUint(Slice(l1, 0, space), 10))

dirFolder(ed) == Returned("nil", <<ed>>, ed, <<>>, <<>>)

dirRest(e, l1) ==
    IF HasPrefix(l1, strDirMarker)
    THEN dirFolder([e EXCEPT !.Type = EntryTypeFolder, !.Name = TrimLeft(TrimPrefix(l1, strDirMarker), " ")])
    ELSE dirFile(e, l1, Index(l1, sp))

dirTimed(st) ==
    IF st.err THEN Unsupported([NewEntry EXCEPT !.Time = st.Time])
    ELSE dirRest([NewEntry EXCEPT !.Time = st.Time], TrimLeft(st.line, " "))

parseDirListLine(ln, t0) ==
    dirTimed(dirTryFormats(dirTimeFormats, [Time |-> ZeroTime, err |-> FALSE, line |-> ln]))

hostedFields(ln, fields, pos, t0) ==
    IF IndexByte(ln, " ") # 10 THEN Unsupported(NewEntry)
    ELSE IF Len(fields) < 2 \/ fields[2] # <<"0">> THEN Unsupported(NewEntry)
    ELSE parseLsListLine(fields[1] \o <<" ", "1", " ">> \o scannerRemaining(ln, pos), t0)

hostedScanned(ln, s2, t0) == hostedFields(ln, s2.fields, s2.pos, t0)

parseHostedFTPLine(ln, t0) == hostedScanned(ln, scannerNextFields(ln, 0, 2), t0)

ibmEntry(name, size, timestamp, entryType) ==
    [Name |-> name, Target |-> <<>>, Size |-> size, Type |-> entryType, Time |-> timestamp]

ibmReturn(e, sizeStr) == Returned("nil", <<e>>, e, <<>>, <<sizeStr>>)

\* the conversions of parseIbmListLine, in its order; nums is <<size, day, month, year, hour, min, sec>>
ibmParsed(sizeStr, fileType, path, nums) ==
    IF \E k \in 1..7 : ~nums[k].ok THEN Returned(strconvNumError, <<>>, NewEntry, <<>>, <<sizeStr>>)
    ELSE ibmReturn(ibmEntry(IF fileType = strIbmDir /\ HasSuffix(path, <<"/">>)
                            THEN Slice(path, 0, Len(path) - 1) ELSE path,
                            nums[1].n,
                            Date(2000 + nums[4].n, nums[3].n, nums[2].n, nums[5].n, nums[6].n, nums[7].n),
                            IF fileType = strIbmDir THEN EntryTypeFolder ELSE EntryTypeFile),
                   sizeStr)

ibmTokens(owner, sizeStr, dateStr, timeStr, fileType, path) ==
    IF owner = <<>> THEN Unsupported(NewEntry)
    ELSE IF sizeStr = <<>> THEN Unsupported(NewEntry)
    ELSE IF dateStr = <<>> \/ Len(dateStr) # 8 THEN Unsupported(NewEntry)
    ELSE IF timeStr = <<>> \/ Len(timeStr) # 8 THEN Unsupported(NewEntry)
    ELSE IF fileType = <<>> THEN Unsupported(NewEntry)
    ELSE IF path = <<>> THEN Unsupported(NewEntry)
    ELSE ibmParsed(sizeStr, fileType, path,
                   <<ParseUint(sizeStr, 10),
                     Atoi(Slice(dateStr, 0, 2)), Atoi(Slice(dateStr, 3, 5)), Atoi(Slice(dateStr, 6, 8)),
                     Atoi(Slice(timeStr, 0, 2)), Atoi(Slice(timeStr, 3, 5)), Atoi(Slice(timeStr, 6, 8))>>)

ibmScanned(ln, s5) ==
    ibmTokens(IF Len(s5.fields) >= 1 THEN s5.fields[1] ELSE <<>>,
              IF Len(s5.fields) >= 2 THEN s5.fields[2] ELSE <<>>,
              IF Len(s5.fields) >= 3 THEN s5.fields[3] ELSE <<>>,
              IF Len(s5.fields) >= 4 THEN s5.fields[4] ELSE <<>>,
              IF Len(s5.fields) >= 5 THEN s5.fields[5] ELSE <<>>,
              TrimLeft(scannerRemaining(ln, s5.pos), " "))

\* the five calls of scanner.Next are one NextFields(5): both stop at the first empty token
parseIbmListLine(ln, t0) == ibmScanned(ln, scannerNextFields(ln, 0, 5))

\* listLineParsers[i](line, now, loc)
listLineParser(i, ln, t0) ==
    CASE i = 1 -> parseRFC3659ListLine(ln, t0)
      [] i = 2 -> parseLsListLine(ln, t0)
      [] i = 3 -> parseDirListLine(ln, t0)
      [] i = 4 -> parseHostedFTPLine(ln, t0)
      [] i = 5 -> parseIbmListLine(ln, t0)

---------------------------------------------------------------------------
(* The lines and reference times of the model.                             *)

MaxWords == 5

Time0(y, mo, d, h, mi, s) == [year |-> y, month |-> mo, day |-> d, hour |-> h, min |-> mi, sec |-> s]

\* the now of the tests of the package, and a reference time whose month + 6 has no day 31
Nows == {Time0(2017, 3, 10, 23, 0, 0), Time0(2016, 8, 31, 12, 0, 0)}

Words(ws) == Join(ws, sp)

\* names of 1..MaxWords words
WordNames == {Words(SubSeq((<<<<"a">>, <<"b", "b">>, <<"c">>, <<"d">>, <<"e">>, <<"f">>, <<"g">>>>), 1, n)) : n \in 1..MaxWords}

LsDates ==
    {<<<<"J", "a", "n">>, <<"2", "5">>, <<"0", "0", ":", "1", "7">>>>, <<<<"D", "e", "c">>, <<"0", "2">>, <<"2", "0", "0", "9">>>>, <<<<"D", "e", "c">>, <<"0", "2">>, <<"2", "0", "9">>>>,
     <<<<"F", "e", "b">>, <<"2", "9">>, <<"1", "0", ":", "0", "0">>>>, <<<<"F", "o", "o">>, <<"1">>, <<"2", "0", "0", "9">>>>}

LsLines ==
    {m \o sp \o Words(mid) \o sp \o Words(d) \o tl :
        m \in {<<"-", "r", "w", "-", "r", "-", "-", "r", "-", "-">>, <<"d", "r", "w", "x", "r", "-", "x", "r", "-", "x">>, <<"l", "r", "w", "x", "r", "w", "x", "r", "w", "x">>, <<"Z", "r", "w", "x", "r", "w", "x", "r", "w", "x">>, <<"-", "r", "w", "x", "r", "w", "-", "r", "-", "-", "+">>, <<"Z", "r", "w", "x", "r", "w", "x", "r", "w", "x", "+">>, <<"0", "0", "0", "0", "0", "0", "0", "0", "0", "x">>, <<"Z", "=", "1", ";", "a", "=", "2", "2", "2", ";">>, <<"d", "r", "w", "x">>}, mid \in ({<<<<"1">>, <<"r", "o", "o", "t">>, <<"o", "t", "h", "e", "r">>, sz>> : sz \in {<<"7">>, <<"1", "2", "3", "4">>, <<"0", "1", "0">>, <<"0", "x", "1", "F">>, <<"1", "_", "0">>, <<"x", "7">>}} \cup {<<<<"0">>, sz, <<"x">>>> : sz \in {<<"7">>, <<"0", "x", "1", "F">>, <<"x", "7">>}} \cup {<<<<"0">>, <<"u", "s", "e", "r">>, <<"g", "r", "o", "u", "p">>, sz>> : sz \in {<<"7">>, <<"0", "x", "1", "F">>, <<"x", "7">>}} \cup {<<<<"f", "o", "l", "d", "e", "r">>, <<"0">>>>, <<<<"1">>>>, <<<<"f", "o", "l", "d", "e", "r">>, <<"1">>, <<"g">>, <<"7">>>>, <<<<"0">>, <<"1", "0", "0", "1">>, <<"g", "r", "o", "u", "p">>, <<"7">>>>}), d \in LsDates, tl \in {<<>>, <<" ", "p", "u", "b">>, <<" ", " ", "f", "o", "o", " ", "b", "a", "r", " ">>, <<" ", "b", "i", "n", " ", "-", ">", " ", "u", "s", "r", "/", "b", "i", "n">>, <<" ", " ", "-", ">", " ", "u", "s", "r", "/", "b", "i", "n">>, <<" ", "a", " ", "-", ">", " ", "b", " ", "-", ">", " ", "c">>, <<" ">>}}

\* lines of one token, and short lines
ShortLines ==
    {<<>>, <<"t", "o", "t", "a", "l">>, <<"<", "D", "I", "R", ">">>, <<"<", "D", "I", "R", ">", "x">>, <<"1", "2">>, <<"a", ";", "b">>, <<"t", "y", "p", "e", "=", "d", "i", "r", ";">>, <<"d", "r", "w", "x", "r", "-", "x", "r", "-", "x">>, <<"0", "8", "-", "1", "0", "-", "1", "5">>,
     <<"t", "o", "t", "a", "l", " ", "1">>, <<"0", "0", "0", "0", "0", "0", "0", "0", "0", "x", " ">>, <<"1", "2", " ", "f", "o", "o">>, <<"<", "D", "I", "R", ">", " ", "x">>, <<" ">>, <<";", " ", "x">>}

DirLines ==
    {dt \o g \o mk \o tl : dt \in {<<"0", "8", "-", "0", "7", "-", "1", "5", " ", " ", "0", "7", ":", "5", "0", "P", "M">>, <<"2", "0", "1", "5", "-", "0", "8", "-", "0", "7", " ", " ", "1", "9", ":", "5", "0">>, <<"0", "8", "-", "1", "0", "-", "2", "0", "1", "5", " ", " ", "0", "2", ":", "0", "4", "P", "M">>, <<"0", "8", "-", "1", "0", "-", "2", "0", "1", "5", " ", " ", "1", "4", ":", "0", "4">>, <<"0", "8", "-", "0", "7", "-", "1", "5", " ", " ", "1", "2", ":", "3", "0", "A", "M">>, <<"0", "8", "-", "0", "7", "-", "1", "5", " ", "0", "7", ":", "5", "0", "P", "M">>, <<"1", "3", "-", "0", "7", "-", "1", "5", " ", " ", "0", "7", ":", "5", "0", "P", "M">>, <<"0", "2", "-", "3", "0", "-", "2", "0", "1", "5", " ", " ", "1", "0", ":", "0", "0">>, <<"0", "8", "-", "0", "7", "-", "1", "5", " ", " ", "0", "7", ":", "5", "0", "p", "m">>}, g \in {<<" ">>, <<" ", " ", " ", " ", " ", " ", " ">>}, mk \in {<<"<", "D", "I", "R", ">">>, <<"7", "1", "8">>, <<"0">>, <<"0", "x", "1", "F">>, <<"x", "7">>, <<"<", "d", "i", "r", ">">>}, tl \in ({sp \o n : n \in WordNames} \cup {<<>>, <<" ">>, <<" ", " ", " ", " ", " ", " ", " ", " ", " ", " ", "B", "i", "l", "l", "i", "n", "g">>, <<" ", " ", " ", "t", "w", "o", " ", " ", "w", "o", "r", "d", "s", " ">>})}

\* lines of six fields: every owner and path with one size, date and time, and every
\* size, date and time with one owner and path
IbmLines ==
    {Words(<<o, <<"1", "2", "2", "8", "8">>, <<"1", "3", "/", "0", "5", "/", "2", "5">>, <<"1", "3", ":", "2", "6", ":", "1", "2">>, ty, pa>>) :
        o \in {<<"O", "W", "N", "E", "R">>, <<"T", "S", "T", "I", "T", "F", "E", "C", "O", "M">>, <<"d", "e", "v", "e", "l", "o", "p", "e", "r", "1">>}, ty \in {<<"*", "D", "I", "R">>, <<"*", "S", "T", "M", "F">>}, pa \in ({<<".", "d", "e", "l", "e", "t", "e", "d", "/">>, <<"1", "1", "4", "/", "P", "O", "L", "L", "5", "3", ".", "D", "W", "N">>, <<"5", "6", "1", "/">>, <<" ", " ", " ", " ", " ", " ", "O", "N", "_", "H", "A", "N", "D", ".", "C", "S", "V">>, <<"m", "y", " ", "d", "i", "r", " ", "x", "/">>, <<"/">>, <<>>} \cup {n \o <<"/">> : n \in WordNames})}
    \cup {Words(<<<<"O", "W", "N", "E", "R">>, sz, d, tm, ty, <<".", "d", "e", "l", "e", "t", "e", "d", "/">>>>) :
        sz \in {<<"1", "2", "2", "8", "8">>, <<"0">>, <<"0", "x", "1", "F">>}, d \in {<<"1", "3", "/", "0", "5", "/", "2", "5">>, <<"3", "1", "/", "1", "2", "/", "9", "9">>, <<"2", "9", "/", "0", "2", "/", "2", "3">>, <<"1", "3", "/", "0", "5", "/", "2", "0", "2", "5">>, <<"1", "3", "/", "5", "/", "2", "5">>}, tm \in {<<"1", "3", ":", "2", "6", ":", "1", "2">>, <<"0", "0", ":", "0", "0", ":", "0", "0">>, <<"1", "3", ":", "2", "6">>}, ty \in {<<"*", "D", "I", "R">>, <<"*", "S", "T", "M", "F">>}}

RfcModify ==
    {<<>>, <<<<"m", "o", "d", "i", "f", "y", "=", "2", "0", "1", "5", "0", "8", "0", "6", "2", "3", "5", "8", "1", "7">>>>, <<<<"M", "o", "d", "i", "f", "y", "=", "2", "0", "1", "5", "0", "8", "1", "3", "1", "7", "5", "2", "5", "0">>>>, <<<<"M", "O", "D", "I", "F", "Y", "=", "2", "0", "1", "6", "0", "2", "2", "9", "0", "0", "0", "0", "0", "0">>>>,
     <<<<"m", "o", "d", "i", "f", "y", "=", "2", "0", "1", "5", "0", "8", "0", "6", "2", "3", "5", "8", "1">>>>, <<<<"m", "o", "d", "i", "f", "y", "=", "2", "0", "1", "5", "1", "3", "0", "6", "2", "3", "5", "8", "1", "7">>>>, <<<<"m", "o", "d", "i", "f", "y", "=", "2", "0", "1", "5", "0", "2", "3", "0", "2", "3", "5", "8", "1", "7">>>>}

RfcType ==
    {<<>>, <<<<"t", "y", "p", "e", "=", "d", "i", "r">>>>, <<<<"T", "y", "p", "e", "=", "c", "d", "i", "r">>>>, <<<<"T", "Y", "P", "E", "=", "p", "d", "i", "r">>>>, <<<<"t", "y", "p", "e", "=", "f", "i", "l", "e">>>>, <<<<"t", "y", "p", "e", "=", "D", "i", "r">>>>,
     <<<<"t", "y", "p", "e", "=", "d", "i", "r">>, <<"t", "y", "p", "e", "=", "f", "i", "l", "e">>>>, <<<<"t", "y", "p", "e", "=", "d", "i", "r">>, <<"t", "y", "p", "e", "=", "O", "S", ".", "u", "n", "i", "x", "=", "s", "l", "i", "n", "k">>>>}

RfcSize == {<<>>, <<<<"s", "i", "z", "e", "=", "9", "5", "1">>>>, <<<<"S", "i", "z", "e", "=", "0", "x", "1", "F">>>>, <<<<"s", "i", "z", "e", "=", "x", "7">>>>, <<<<"s", "i", "z", "e", "=", "7">>, <<"S", "I", "Z", "E", "=", "0", "1", "0">>>>}

\* fact lists in the order modify, other, type, size and in the reverse order, and
\* the ends of the fact list and the names with the plain facts
RfcLines ==
    {Join(m \o o \o ty \o sz, <<";">>) \o <<";">> \o sp \o <<"m", "o", "v", "i", "e", "s">> :
        m \in RfcModify, ty \in RfcType, sz \in RfcSize, o \in {<<>>, <<<<"p", "e", "r", "m", "=", "f", "l", "e">>>>}}
    \cup {Join(m \o o \o ty \o sz, <<";">>) \o end \o sp \o n :
        m \in {<<>>, <<<<"m", "o", "d", "i", "f", "y", "=", "2", "0", "1", "5", "0", "8", "0", "6", "2", "3", "5", "8", "1", "7">>>>}, ty \in {<<>>, <<<<"t", "y", "p", "e", "=", "d", "i", "r">>>>},
        sz \in {<<>>, <<<<"s", "i", "z", "e", "=", "9", "5", "1">>>>}, o \in {<<>>, <<<<"p", "e", "r", "m", "=", "f", "l", "e">>>>, <<<<"U", "N", "I", "X", ".", "m", "o", "d", "e", "=", "0", "7", "5", "5">>>>, <<<<"i", "n", "v", "a", "l", "i", "d">>>>, <<<<"=", "x">>>>}, end \in {<<";">>, <<>>, <<";", ";">>}, n \in {<<"m", "o", "v", "i", "e", "s">>, <<"m", "y", " ", "m", "o", "v", "i", "e", "s">>, <<".">>, <<>>}}
    \cup {Join(sz \o ty \o m, <<";">>) \o <<";">> \o sp \o <<"m", "o", "v", "i", "e", "s">> :
        m \in RfcModify, ty \in RfcType, sz \in RfcSize}

\* lines of the tests of the package
TestLines ==
    {<<"d", "r", "w", "x", "r", "-", "x", "r", "-", "x", " ", " ", " ", " ", "3", " ", "1", "1", "0", " ", " ", " ", " ", " ", " ", "1", "0", "0", "2", " ", " ", " ", " ", " ", " ", " ", " ", " ", " ", " ", " ", "3", " ", "D", "e", "c", " ", "0", "2", " ", " ", "2", "0", "0", "9", " ", "p", "u", "b">>,
     <<"-", "r", "w", "x", "r", "-", "x", "r", "-", "x", " ", " ", " ", " ", "3", " ", "1", "1", "0", " ", " ", " ", " ", " ", " ", "1", "0", "0", "2", " ", " ", " ", " ", " ", " ", " ", " ", " ", " ", " ", " ", "1", "2", "3", "4", "5", "6", "7", " ", "D", "e", "c", " ", "0", "2", " ", " ", "2", "0", "0", "9", " ", " ", "f", "o", "o", " ", "b", "a", "r", " ">>,
     <<"d", "r", "w", "x", "r", "-", "x", "r", "-", "x", " ", " ", " ", " ", " ", " ", " ", " ", " ", " ", " ", " ", " ", " ", " ", "f", "o", "l", "d", "e", "r", " ", " ", " ", " ", " ", " ", " ", " ", "0", " ", "A", "u", "g", " ", "1", "5", " ", "0", "5", ":", "4", "9", " ", "!", "!", "!", "-", "T", "i", "p", "p", " ", "d", "e", "s", " ", "H", "a", "u", "s", "!">>,
     <<"-", "r", "w", "-", "r", "-", "-", "r", "-", "-", " ", " ", " ", " ", " ", " ", " ", " ", "0", " ", " ", " ", "1", "8", "4", "4", "6", "7", "4", " ", "1", "8", "4", "4", "6", "7", "4", " ", "N", "o", "v", " ", "1", "6", " ", " ", "2", "0", "0", "6", " ", "V", "I", "D", "E", "O", "_", "T", "S", ".", "V", "O", "B">>,
     <<"d", "-", "-", "-", "-", "-", "-", "-", "-", "-", " ", " ", " ", "1", " ", "o", "w", "n", "e", "r", " ", " ", " ", " ", "g", "r", "o", "u", "p", " ", " ", " ", " ", " ", " ", " ", " ", " ", " ", " ", " ", " ", " ", " ", "0", " ", "N", "o", "v", " ", " ", "9", " ", "1", "9", ":", "4", "5", " ", "S", "o", "f", "t", "l", "i", "b">>,
     <<"0", "8", "-", "1", "0", "-", "1", "5", " ", " ", "0", "2", ":", "0", "4", "P", "M", " ", " ", " ", " ", " ", " ", " ", "<", "D", "I", "R", ">", " ", " ", " ", " ", " ", " ", " ", " ", " ", " ", "B", "i", "l", "l", "i", "n", "g">>,
     <<"-", "r", "-", "-", "-", "-", "-", "-", "-", "-", " ", " ", " ", "0", " ", "u", "s", "e", "r", " ", "g", "r", "o", "u", "p", " ", " ", " ", " ", " ", "6", "5", "2", "2", "2", "2", "3", "6", " ", "F", "e", "b", " ", "2", "4", " ", "0", "0", ":", "3", "9", " ", "R", "e", "g", "u", "l", "a", "r", "F", "i", "l", "e">>,
     <<"d", " ", "[", "R", "-", "-", "-", "-", "F", "-", "-", "]", " ", "s", "u", "p", "e", "r", "v", "i", "s", "o", "r", " ", " ", " ", " ", " ", " ", " ", " ", " ", " ", " ", " ", "5", "1", "2", " ", " ", " ", " ", " ", " ", " ", "J", "a", "n", " ", "1", "6", " ", "1", "8", ":", "5", "3", " ", "l", "o", "g", "i", "n">>,
     <<"T", "S", "T", "I", "T", "F", "E", "C", "O", "M", " ", " ", " ", " ", " ", " ", "1", "2", "2", "8", "8", " ", "1", "3", "/", "0", "5", "/", "2", "5", " ", "1", "3", ":", "2", "6", ":", "1", "2", " ", "*", "D", "I", "R", " ", " ", " ", " ", " ", " ", " ", ".", "d", "e", "l", "e", "t", "e", "d", "/">>,
     <<"T", "S", "T", "I", "T", "F", "E", "C", "O", "M", " ", " ", " ", " ", " ", " ", "2", "1", "5", "0", "4", " ", "1", "3", "/", "0", "5", "/", "2", "5", " ", "1", "3", ":", "3", "1", ":", "4", "2", " ", "*", "S", "T", "M", "F", " ", " ", " ", " ", " ", " ", "1", "1", "4", "/", "P", "O", "L", "L", "5", "3", ".", "D", "W", "N">>}

Lines == LsLines \cup ShortLines \cup DirLines \cup IbmLines \cup RfcLines \cup TestLines

\* the lines read under both reference times
NowLines == TestLines \cup {<<"-", "r", "w", "-", "r", "-", "-", "r", "-", "-", " ", "1", " ", "r", "o", "o", "t", " ", "o", "t", "h", "e", "r", " ", "7", " ">> \o Words(d) \o <<" ", "p", "u", "b">> : d \in LsDates}

TestNow == Time0(2017, 3, 10, 23, 0, 0)

---------------------------------------------------------------------------
(* parseListLine as a state machine: one step per recognizer of            *)
(* listLineParsers, and the return after the loop.                         *)

Pending == Returned("pending", <<>>, NewEntry, <<>>, <<>>)

Init ==
    /\ line \in Lines
    /\ now \in (IF line \in NowLines THEN Nows ELSE {TestNow})
    /\ pc = "parseListLine"
    /\ idx = 1
    /\ tried = <<>>
    /\ result = Pending

\* Call with a loop that moves on after every error, not only after errUnsupportedListLine
CallNextOnError(i, r) ==
    /\ pc = "parseListLine"
    /\ idx = i
    /\ tried' = Append(tried, i)
    /\ IF r.err = "nil"
       THEN /\ result' = r
            /\ pc' = "return"
            /\ idx' = idx
       ELSE /\ idx' = i + 1
            /\ UNCHANGED <<result, pc>>
    /\ UNCHANGED <<line, now>>

\* the body of the loop of parseListLine for recognizer i, r being what it returned
Call(i, r) ==
    /\ pc = "parseListLine"
    /\ idx = i
    /\ tried' = Append(tried, i)
    /\ IF r.err # errUnsupportedListLine
       THEN /\ result' = r
            /\ pc' = "return"
            /\ idx' = idx
       ELSE /\ idx' = i + 1
            /\ UNCHANGED <<result, pc>>
    /\ UNCHANGED <<line, now>>

CallRFC3659 == Call(1, parseRFC3659ListLine(line, now))

CallLs == Call(2, parseLsListLine(line, now))

CallDir == Call(3, parseDirListLine(line, now))

CallHostedFTP == Call(4, parseHostedFTPLine(line, now))

CallIbm == Call(5, parseIbmListLine(line, now))

\* the return after the loop: every recognizer returned errUnsupportedListLine
ReturnUnsupported ==
    /\ pc = "parseListLine"
    /\ idx = 6
    /\ result' = Unsupported(NewEntry)
    /\ pc' = "return"
    /\ UNCHANGED <<line, now, idx, tried>>

Next ==
    \/ CallRFC3659
    \/ CallLs
    \/ CallDir
    \/ CallHostedFTP
    \/ CallIbm
    \/ ReturnUnsupported

Spec == Init /\ [][Next]_vars

---------------------------------------------------------------------------
(* TestSettime of the package: setTime called directly on the fields of a  *)
(* line of three tokens.                                                   *)

YearSpan == 1

RECURSIVE Fields(_)
\* strings.Fields for lines whose only white space is the space
Fields(s) ==
    IF TrimLeft(s, " ") = <<>> THEN <<>>
    ELSE IF IndexByte(TrimLeft(s, " "), " ") < 0 THEN <<TrimLeft(s, " ")>>
    ELSE <<Slice(TrimLeft(s, " "), 0, IndexByte(TrimLeft(s, " "), " "))>>
         \o Fields(From(TrimLeft(s, " "), IndexByte(TrimLeft(s, " "), " ")))

SetTimeLines ==
    {Words(<<shortMonthNames[m], d, c>>) : m \in 1..12, d \in {<<"1">>, <<"1", "0">>, <<"2", "8">>, <<"2", "9">>, <<"3", "0">>, <<"3", "1">>}, c \in {<<"0", "0", ":", "0", "0">>, <<"2", "2", ":", "5", "9">>, <<"2", "3", ":", "0", "0">>, <<"2", "3", ":", "0", "1">>}}
    \cup {<<"J", "a", "n", " ", "2", "3", " ", " ", "2", "0", "1", "9">>, <<"D", "e", "c", " ", "0", "2", " ", "2", "0", "9">>, <<"F", "e", "b", " ", "2", "9", " ", "2", "0", "1", "6">>}

\* reference times of the years 2016 .. 2016 + YearSpan: the now of the tests, the same
\* with seconds, the last day of a month before a shorter one, and the ends of a year
SetTimeNows ==
    {Time0(2016 + y, md[1], md[2], md[3], md[4], md[5]) :
        y \in 0..YearSpan,
        md \in {<<3, 10, 23, 0, 0>>, <<3, 10, 23, 0, 30>>, <<8, 31, 12, 0, 0>>,
                <<12, 31, 23, 59, 59>>, <<1, 1, 0, 0, 0>>}}

InitSetTime ==
    /\ line \in SetTimeLines
    /\ now \in SetTimeNows
    /\ pc = "TestSettime"
    /\ idx = 1
    /\ tried = <<>>
    /\ result = Pending

settimeReturn(r, fields) == Returned(r.err, <<r.e>>, r.e, <<fields>>, <<>>)

\* entry := &Entry{}; entry.setTime(strings.Fields(test.line), now, time.UTC)
TestSettime ==
    /\ pc = "TestSettime"
    /\ result' = settimeReturn(setTime(NewEntry, Fields(line), now), Fields(line))
    /\ pc' = "return"
    /\ UNCHANGED <<line, now, idx, tried>>

NextSetTime == TestSettime

SpecSetTime == InitSetTime /\ [][NextSetTime]_vars

---------------------------------------------------------------------------
(* The claims.                                                             *)

Done == pc = "return"

IsRecord == result.err = "nil" /\ Len(result.e) = 1

\* what the chain has to return when rs[i] is what recognizer i returns for the line:
\* the outcome of the first recognizer that does not return errUnsupportedListLine,
\* the recognizers run to get there, and whether all five returned errUnsupportedListLine
FirstOf(rs, hits) ==
    IF hits = {} THEN [result |-> Unsupported(NewEntry), tried |-> <<1, 2, 3, 4, 5>>, all |-> TRUE]
    ELSE [result |-> rs[CHOOSE k \in hits : \A j \in hits : k <= j],
          tried |-> [j \in 1..(CHOOSE k \in hits : \A j \in hits : k <= j) |-> j],
          all |-> FALSE]

FirstOutcomeOf(rs) == FirstOf(rs, {i \in 1..5 : rs[i].err # errUnsupportedListLine})

FirstOutcome(ln, t0) == FirstOutcomeOf([i \in 1..5 |-> listLineParser(i, ln, t0)])

ChainReturned(o) ==
    /\ result = o.result
    /\ tried = o.tried
    /\ (result.err = errUnsupportedListLine) <=> o.all

\* C1: parseListLine runs the recognizers in the order fact list, Unix ls, DOS DIR,
\* quirk, vendor on the one line and reference time; it goes on to the next recognizer
\* only after errUnsupportedListLine, returns the first other outcome without running
\* a later recognizer, and returns errUnsupportedListLine exactly when all five did.
C1_ChainOrder ==
    /\ tried = [j \in 1..Len(tried) |-> j]
    /\ Len(tried) <= 5
    /\ ~Done =>
           /\ result = Pending
           /\ idx = Len(tried) + 1
           /\ Len(tried) >= 1 => listLineParser(Len(tried), line, now).err = errUnsupportedListLine
    /\ Done => ChainReturned(FirstOutcome(line, now))

\* a hard error of the Unix ls recognizer is returned although the DOS DIR recognizer,
\* which is not run, returns a record for the line
C1_Witness ==
    /\ Done
    /\ tried = <<1, 2>>
    /\ result.err = errUnknownListEntryType
    /\ listLineParser(3, line, now).err = "nil"

\* C2: for the empty line and for every line without a space parseListLine returns
\* errUnsupportedListLine and no record.
C2_SingleToken ==
    Done /\ ~Contains(line, sp) => result.err = errUnsupportedListLine /\ result.e = <<>>

\* the month, day, hour and minute a line "Mon D HH:MM" names
dateNamed(f) ==
    [month |-> CHOOSE m \in 1..12 : shortMonthNames[m] = f[1],
     day |-> DecimalValue(f[2], 0),
     hour |-> DecimalValue(Slice(f[3], 0, 2), 0),
     min |-> DecimalValue(Slice(f[3], 3, 5), 0)]

\* day, month, the year of the reference time and the clock time, when strictly before
\* the reference time + 6 months, and the same date a year earlier otherwise
resolved(d, t0, composed) ==
    IF Before(composed, AddDate(t0, 0, 6, 0)) THEN composed
    ELSE [composed EXCEPT !.year = t0.year - 1]

setTimeResolves(d, t0) ==
    /\ result.err = "nil"
    /\ result.e = <<[NewEntry EXCEPT !.Time = resolved(d, t0, Time0(t0.year, d.month, d.day, d.hour, d.min, 0))]>>

\* C3 (amended): for every reference time and every month, day and clock time that name
\* a day of the reference time's year, setTime composes day, month, that year and the
\* clock time and returns this time when it is strictly before the reference time + 6
\* months, and the same date one year earlier otherwise.
C3_RecencyOfDatesOfTheYear ==
    Done /\ Contains(Fields(line)[3], <<":">>)
         /\ dateNamed(Fields(line)).day <= daysIn(dateNamed(Fields(line)).month, now.year)
        => setTimeResolves(dateNamed(Fields(line)), now)

\* with the reference time 2017-03-10 23:00, "Sep 10 23:00" is a time of 2016
C3_Witness ==
    /\ Done
    /\ now = Time0(2017, 3, 10, 23, 0, 0)
    /\ line = <<"S", "e", "p", " ", "1", "0", " ", "2", "3", ":", "0", "0">>
    /\ result.e = <<[NewEntry EXCEPT !.Time = Time0(2016, 9, 10, 23, 0, 0)]>>

\* C3 as stated: the same for every month, day and clock time, a day being a day of
\* the month in some year.
C3_RecencyOfEveryDate ==
    Done /\ Contains(Fields(line)[3], <<":">>)
         /\ dateNamed(Fields(line)).day <= daysIn(dateNamed(Fields(line)).month, 2016)
        => setTimeResolves(dateNamed(Fields(line)), now)

RECURSIVE DropFields(_, _)
\* what is left of s after its first n fields, without leading spaces
DropFields(s, n) ==
    IF n = 0 \/ TrimLeft(s, " ") = <<>> THEN TrimLeft(s, " ")
    ELSE IF IndexByte(TrimLeft(s, " "), " ") < 0 THEN <<>>
    ELSE DropFields(From(TrimLeft(s, " "), IndexByte(TrimLeft(s, " "), " ")), n - 1)

num2(s, lo) == DecimalValue(Slice(s, lo, lo + 2), 0)

\* three two-digit numbers with the separator c between them
IsTriple(s, c) ==
    /\ Len(s) = 8
    /\ s[3] = c /\ s[6] = c
    /\ \A i \in {1, 2, 4, 5, 7, 8} : IsDigitChar(s[i])

\* DD/MM/YY, a day of the year 2000 + YY
IsVendorDate(s) ==
    /\ IsTriple(s, "/")
    /\ num2(s, 3) \in 1..12
    /\ num2(s, 0) \in 1..daysIn(num2(s, 3), 2000 + num2(s, 6))

\* HH:MM:SS
IsVendorTime(s) ==
    /\ IsTriple(s, ":")
    /\ num2(s, 0) < 24 /\ num2(s, 3) < 60 /\ num2(s, 6) < 60

\* owner, decimal size, date, time, type marker and a path
IsVendorLine(f) ==
    /\ Len(f) >= 6
    /\ AllDigits(f[2])
    /\ IsVendorDate(f[3])
    /\ IsVendorTime(f[4])

vendorEntry(f, path) ==
    [Name |-> IF f[5] = strIbmDir /\ HasSuffix(path, <<"/">>) THEN Slice(path, 0, Len(path) - 1) ELSE path,
     Target |-> <<>>,
     Size |-> DecimalValue(f[2], 0),
     Type |-> IF f[5] = strIbmDir THEN EntryTypeFolder ELSE EntryTypeFile,
     Time |-> Time0(2000 + num2(f[3], 6), num2(f[3], 3), num2(f[3], 0),
                    num2(f[4], 0), num2(f[4], 3), num2(f[4], 6))]

\* C4: for every vendor line (owner, decimal size, DD/MM/YY, HH:MM:SS, type marker,
\* path, whatever the owner and the path) parseListLine returns the record with that
\* size, the time of year 2000 + YY, Folder for the marker *DIR and File otherwise, and
\* the path as the name, without its trailing separator for a folder.
C4_VendorRecord ==
    Done /\ IsVendorLine(Fields(line))
        => result.err = "nil" /\ result.e = <<vendorEntry(Fields(line), DropFields(line, 5))>>

isFact(f) == Index(f, <<"=">>) >= 1

factHasKey(f, key) == isFact(f) /\ ToLower(Slice(f, 0, Index(f, <<"=">>))) = key

\* YYYYMMDDHHMMSS, a time of the calendar
IsTimestamp(v) ==
    /\ Len(v) = 14
    /\ AllDigits(v)
    /\ num2(v, 4) \in 1..12
    /\ num2(v, 6) \in 1..daysIn(num2(v, 4), DecimalValue(Slice(v, 0, 4), 0))
    /\ num2(v, 8) < 24 /\ num2(v, 10) < 60 /\ num2(v, 12) < 60

timestampOf(v) ==
    Time0(DecimalValue(Slice(v, 0, 4), 0), num2(v, 4), num2(v, 6), num2(v, 8), num2(v, 10), num2(v, 12))

\* facts that are all key=value with a key, a timestamp for modify and a number for size
AreFacts(facts) ==
    \A i \in 1..Len(facts) :
        /\ isFact(facts[i])
        /\ factHasKey(facts[i], strModify) => IsTimestamp(factValue(facts[i]))
        /\ factHasKey(facts[i], strSize) => ParseUint(factValue(facts[i]), 0).ok

\* the value of the last fact with the key, <<>> when there is none
lastValue(facts, key) ==
    IF \E i \in 1..Len(facts) : factHasKey(facts[i], key)
    THEN <<factValue(facts[CHOOSE i \in 1..Len(facts) :
                                /\ factHasKey(facts[i], key)
                                /\ \A j \in (i + 1)..Len(facts) : ~factHasKey(facts[j], key)])>>
    ELSE <<>>

\* the type facts with a value the recognizer knows
knownTypes(facts) ==
    SelectSeq(facts, LAMBDA f : factHasKey(f, strType) /\ factValue(f) \in {strDir, strCdir, strPdir, strFile})

factEntry(facts, name) ==
    [Name |-> name,
     Target |-> <<>>,
     Size |-> IF lastValue(facts, strSize) = <<>> THEN 0 ELSE ParseUint(lastValue(facts, strSize)[1], 0).n,
     Type |-> IF lastValue(knownTypes(facts), strType) \in {<<>>, <<strFile>>}
              THEN EntryTypeFile ELSE EntryTypeFolder,
     Time |-> IF lastValue(facts, strModify) = <<>> THEN ZeroTime
              ELSE timestampOf(lastValue(facts, strModify)[1])]

\* the fact list recognizer, the first of the chain, returned the record of the facts
factRecord(facts, name) ==
    Len(tried) >= 1 => Done /\ tried = <<1>> /\ result.err = "nil" /\ result.e = <<factEntry(facts, name)>>

\* the text before the first space, and that text without one ';' at its end
factText(ln) == Slice(ln, 0, Index(ln, sp))

factList(text) ==
    IF Len(text) > 0 /\ text[Len(text)] = ";" THEN Slice(text, 0, Len(text) - 1) ELSE text

\* C5 (amended): for every line whose text before the first space is a list of
\* key=value facts with non-empty keys, each followed by ';' (so that a ';' stands right
\* before the first space), whose modify values are 14-digit timestamps and whose size
\* values are unsigned integer literals, the fact list recognizer returns a record with
\* the text after the first space as the name, the time of the last modify fact, Folder
\* or File after the last type fact with the value dir, cdir, pdir or file, and the size
\* of the last size fact; keys are matched whatever their case, other keys and other
\* type values are ignored.
C5_FactsEndingInSemicolon ==
    /\ Index(line, sp) >= 1
    /\ line[Index(line, sp)] = ";"
    /\ AreFacts(Split(factList(factText(line)), <<";">>))
    => factRecord(Split(factList(factText(line)), <<";">>), From(line, Index(line, sp) + 1))

\* a folder with a time and a size in base 16, from facts with keys in capitals
C5_Witness ==
    /\ Done
    /\ tried = <<1>>
    /\ Index(line, sp) >= 1
    /\ line[Index(line, sp)] = ";"
    /\ AreFacts(Split(factList(factText(line)), <<";">>))
    /\ Contains(line, <<"S", "i", "z", "e", "=", "0", "x", "1", "F">>)
    /\ Contains(line, <<"M", "O", "D", "I", "F", "Y", "=">>)
    /\ result.err = "nil"
    /\ result.e[1].Type = EntryTypeFolder
    /\ result.e[1].Size = 31
    /\ result.e[1].Time = Time0(2016, 2, 29, 0, 0, 0)

\* C5 as stated: the same for every line whose first ';' lies before its first space
\* and whose facts before that space are all key=value facts with non-empty keys.
C5_FactsBeforeSpace ==
    /\ Index(line, <<";">>) >= 0
    /\ Index(line, <<";">>) < Index(line, sp)
    /\ AreFacts(Split(factList(factText(line)), <<";">>))
    => factRecord(Split(factList(factText(line)), <<";">>), From(line, Index(line, sp) + 1))

\* C6: the name of a record of type link never contains " -> ": what follows the date
\* is split at the separator into the name and the target.
C6_LinkNameHasNoArrow ==
    Done /\ IsRecord /\ result.e[1].Type = EntryTypeLink => ~Contains(result.e[1].Name, strArrow)

\* a first field of 10 bytes, or of 11 ending in '+', that starts with none of - d l;
\* a field that holds ';' is a fact list, not a mode field
IsUnknownMode(ln) ==
    /\ IndexByte(ln, " ") = 10 \/ (IndexByte(ln, " ") = 11 /\ ln[11] = "+")
    /\ ln[1] \notin {"-", "d", "l"}
    /\ ~Contains(Slice(ln, 0, IndexByte(ln, " ")), <<";">>)

\* the line takes the generic branch of parseLsListLine
IsGeneric(f) ==
    /\ Len(f) >= 8
    /\ f[2] # <<"0">>
    /\ ~(f[2] = strFolder /\ f[3] = <<"0">>)

UnknownTypeReturned == result.err = errUnknownListEntryType /\ result.e = <<>> /\ tried = <<1, 2>>

IsBadYear(tok) == ~Contains(tok, <<":">>) /\ Len(tok) # 4

\* r, what the recognizer run last returned: if setTime was called with such a token,
\* the recognizer returned errUnsupportedListDate and the chain returned it
dateRejected(r) ==
    r.setTimeFields # <<>> /\ IsBadYear(r.setTimeFields[1][3])
        => r.err = errUnsupportedListDate /\ r.e = <<>> /\ Done /\ result = r

\* C8: whenever the Unix ls recognizer, run on the line or on the line the quirk
\* recognizer rewrote, calls setTime with a third date token that holds no ':' and is
\* not of 4 bytes, parseListLine returns errUnsupportedListDate: no record is returned
\* and no later recognizer is run.
C8_BadYearIsRejected ==
    Len(tried) >= 1 /\ tried[Len(tried)] \in {2, 4}
        => dateRejected(listLineParser(tried[Len(tried)], line, now))

\* the line with link count 0 that only the quirk recognizer takes, with the year 209
C8_Witness ==
    /\ Done
    /\ tried = <<1, 2, 3, 4>>
    /\ result.setTimeFields # <<>>
    /\ result.setTimeFields[1][3] = <<"2", "0", "9">>
    /\ result.err = errUnsupportedListDate

\* C9: a record of the Unix ls, DOS DIR, quirk or vendor recognizer has the size the
\* size token states as an unsigned decimal number; no other token is taken for a size.
C9_SizeIsDecimal ==
    Done /\ IsRecord /\ Len(tried) >= 2 /\ result.setSizeStr # <<>>
        => /\ Len(result.setSizeStr[1]) > 0
           /\ AllDigits(result.setSizeStr[1])
           /\ result.e[1].Size = DecimalValue(result.setSizeStr[1], 0)

\* the date-times of the four formats of dirTimeFormats, with the times they state
DirTimes ==
    {<<<<"0", "8", "-", "0", "7", "-", "1", "5", " ", " ", "0", "7", ":", "5", "0", "P", "M">>, Time0(2015, 8, 7, 19, 50, 0)>>,
     <<<<"0", "8", "-", "0", "7", "-", "1", "5", " ", " ", "1", "2", ":", "3", "0", "A", "M">>, Time0(2015, 8, 7, 0, 30, 0)>>,
     <<<<"2", "0", "1", "5", "-", "0", "8", "-", "0", "7", " ", " ", "1", "9", ":", "5", "0">>, Time0(2015, 8, 7, 19, 50, 0)>>,
     <<<<"0", "8", "-", "1", "0", "-", "2", "0", "1", "5", " ", " ", "0", "2", ":", "0", "4", "P", "M">>, Time0(2015, 8, 10, 14, 4, 0)>>,
     <<<<"0", "8", "-", "1", "0", "-", "2", "0", "1", "5", " ", " ", "1", "4", ":", "0", "4">>, Time0(2015, 8, 10, 14, 4, 0)>>}

\* after the date-time: <DIR> or a decimal size, then a name
IsDirRest(f) == Len(f) >= 2 /\ (f[1] = strDirMarker \/ AllDigits(f[1]))

dirEntry(t, f, name) ==
    [Name |-> name,
     Target |-> <<>>,
     Size |-> IF f[1] = strDirMarker THEN 0 ELSE DecimalValue(f[1], 0),
     Type |-> IF f[1] = strDirMarker THEN EntryTypeFolder ELSE EntryTypeFile,
     Time |-> t]

\* C10: for every line of a date-time in one of the four DIR formats, then <DIR> or a
\* decimal size, then a name of any number of words, parseListLine returns the record of
\* the DOS DIR recognizer: Folder, or File with the size, the time the date-time states
\* and the rest of the line without leading spaces as the name; the recognizers before
\* it return neither a record nor another error.
C10_DirRecord ==
    Done => \A dt \in DirTimes :
                HasPrefix(line, dt[1] \o sp) /\ IsDirRest(Fields(From(line, Len(dt[1]))))
                    => /\ tried = <<1, 2, 3>>
                       /\ result.err = "nil"
                       /\ result.e = <<dirEntry(dt[2], Fields(From(line, Len(dt[1]))),
                                                DropFields(From(line, Len(dt[1])), 1))>>
\* a first field of 10 bytes, the link count "0", then owner, group, size, month, day,
\* time or year and a name; a first field that holds ';' is a fact list
IsZeroLinkLine(ln, f) ==
    /\ IndexByte(ln, " ") = 10 /\ Len(f) >= 9 /\ f[2] = <<"0">> /\ ~Contains(f[1], <<";">>)
    /\ AllDigits(f[5])
    /\ \E m \in 1..12 : shortMonthNames[m] = f[6]
    /\ AllDigits(f[7])

\* the line with the link count replaced by "1"
linkCountOne(ln, s2) == s2.fields[1] \o <<" ", "1", " ">> \o scannerRemaining(ln, s2.pos)

sameOutcome(r) == result.err = r.err /\ result.e = r.e

\* C11: for every line whose first field has 10 bytes and whose second field is "0",
\* followed by owner, group, size, month, day, time or year and a name, parseListLine
\* returns what parseLsListLine returns for the line with the link count replaced by
\* "1", whatever the owner and the group are.
C11_ZeroLinkCountAsOne ==
    Done /\ IsZeroLinkLine(line, Fields(line))
        => sameOutcome(parseLsListLine(linkCountOne(line, scannerNextFields(line, 0, 2)), now))

\* format i of dirTimeFormats parses the prefix of its length of the line
dirParses(i, ln) ==
    /\ Len(ln) >= Len(dirTimeFormats[i])
    /\ ParseInLocation(dirTimeFormats[i], Slice(ln, 0, Len(dirTimeFormats[i]))).ok

\* the first format in the order of the list that parses the prefix, 0 when none does
dirFirstParsed(ln) ==
    IF \E i \in 1..Len(dirTimeFormats) : dirParses(i, ln)
    THEN CHOOSE i \in 1..Len(dirTimeFormats) : dirParses(i, ln) /\ \A j \in 1..(i - 1) : ~dirParses(j, ln)
    ELSE 0

\* r, what parseDirListLine returned for the line, and first, the first format that
\* parses its prefix
dirOnlyParsed(r, ln, first) ==
    /\ r.err = "nil" =>
           /\ first > 0
           /\ Len(r.e) = 1
           /\ r.e[1].Time = ParseInLocation(dirTimeFormats[first], Slice(ln, 0, Len(dirTimeFormats[first]))).t
    /\ first = 0 => r.err = errUnsupportedListLine /\ r.e = <<>>

\* C12: for every line, the lines shorter than every format included, parseDirListLine
\* returns a record only if a format of dirTimeFormats parses the prefix of the line,
\* the first such format in the order of the list giving the time of the record, and
\* returns errUnsupportedListLine when no format parses the prefix.
C12_DirRecordOnlyOfParsedPrefix ==
    Len(tried) >= 3 => dirOnlyParsed(listLineParser(3, line, now), line, dirFirstParsed(line))

---------------------------------------------------------------------------
(* parseNextRFC3659ListLine called again and again on one record: the       *)
(* record the calls share is result.rec, line is the line of the last call, *)
(* idx counts the calls.                                                    *)

MaxCalls == 3

\* fact lists for the names a, b and the empty name, with facts that are applied, facts
\* that fail, and lines that are no fact lists
NextLines ==
    {<<"s", "i", "z", "e", "=", "1", ";", " ", "a">>, <<"s", "i", "z", "e", "=", "2", ";", "t", "y", "p", "e", "=", "d", "i", "r", ";", " ", "a">>, <<"m", "o", "d", "i", "f", "y", "=", "2", "0", "1", "5", "0", "8", "0", "6", "2", "3", "5", "8", "1", "7", ";", " ", "a">>, <<"s", "i", "z", "e", "=", "x", ";", " ", "a">>, <<"n", "o", "f", "a", "c", "t", "s", " ", "a">>,
     <<"s", "i", "z", "e", "=", "2", ";", " ", "b">>, <<"t", "y", "p", "e", "=", "f", "i", "l", "e", ";", "m", "o", "d", "i", "f", "y", "=", "2", "0", "1", "6", "0", "2", "2", "9", "0", "0", "0", "0", "0", "0", ";", " ", "b">>, <<"s", "i", "z", "e", "=", "x", ";", " ", "b">>, <<"m", "o", "d", "i", "f", "y", "=", "2", "0", "1", "5", ";", " ", "b">>, <<"b", "a", "d", ";", " ", "b">>,
     <<"b">>, <<"s", "i", "z", "e", "=", "3", ";", " ">>, <<"t", "y", "p", "e", "=", "d", "i", "r", ";", "s", "i", "z", "e", "=", "7", ";", " ", "a", " ", "b">>}

InitNextRFC3659 ==
    /\ line = <<>>
    /\ now = TestNow
    /\ pc = "parseNextRFC3659ListLine"
    /\ idx = 1
    /\ tried = <<>>
    /\ result = Pending

\* e, err := parseNextRFC3659ListLine(line, loc, e) with the record of the calls before
CallNextRFC3659 ==
    /\ pc = "parseNextRFC3659ListLine"
    /\ idx <= MaxCalls
    /\ \E ln \in NextLines :
           /\ line' = ln
           /\ result' = parseNextRFC3659ListLine(ln, result.rec)
    /\ idx' = idx + 1
    /\ UNCHANGED <<now, pc, tried>>

NextNextRFC3659 == CallNextRFC3659

SpecNextRFC3659 == InitNextRFC3659 /\ [][NextNextRFC3659]_vars

\* the name a line carries: what follows its first space
nameOf(ln) == From(ln, Index(ln, sp) + 1)

\* a call on a record with a name: the name stays, and a line with another name makes
\* the call return errUnsupportedListLine and no record, the record left as it was
NameKept ==
    result.rec.Name # <<>> =>
        /\ result'.rec.Name = result.rec.Name
        /\ nameOf(line') # result.rec.Name =>
               /\ result'.err = errUnsupportedListLine
               /\ result'.e = <<>>
               /\ result'.rec = result.rec

\* C13: across the calls of parseNextRFC3659ListLine on one record, a name that is not
\* empty never changes: a call whose line carries another name returns
\* errUnsupportedListLine, no error of a date or a size, and leaves the name, the size,
\* the type and the time of the record as they were before the call.
C13_NameNeverChanges == [][CallNextRFC3659 => NameKept]_vars

\* the record was named a with the size 1, and the last call, with a line of the name b
\* and the size 2, returned errUnsupportedListLine
C13_Witness ==
    /\ pc = "parseNextRFC3659ListLine"
    /\ idx >= 3
    /\ line = <<"s", "i", "z", "e", "=", "2", ";", " ", "b">>
    /\ result.err = errUnsupportedListLine
    /\ result.rec.Name = <<"a">>
    /\ result.rec.Size = 1
====
